---- MODULE Spec2Model ----
(***************************************************************************)
(* Model of synapi.SynapseSession (src/src/synapi.py): the path-based      *)
(* layer over a Synapse project.                                           *)
(*                                                                         *)
(* The remote store is a forest of entities rooted at the project.  Every  *)
(* entity has an identifier, a name, a container (parent), a concrete type *)
(* and, for files, a content.  The local filesystem the session uploads    *)
(* from and downloads to is the variable disk.                             *)
(* A path is a Python string; it is modelled                               *)
(* as the sequence of its tokens, a token being the separator "/" or a     *)
(* maximal run of non-separator characters (a name).  The empty string is  *)
(* the empty sequence, and a segment produced by split() is a name or the  *)
(* empty string "".                                                        *)
(***************************************************************************)
EXTENDS Integers, Sequences, FiniteSets, TLC

VARIABLES syn, disk, last

vars == <<syn, disk, last>>

(***************************************************************************)
(* Bounds of the model.                                                    *)
(***************************************************************************)
\* Longest path, in segments, a caller passes.
MaxSegs == 3
\* Most calls made one after the other on a session.
MaxCalls == 2

\* Names the caller uses in paths.
Names == {"a", "b"}
\* Outcomes of the random staging name drawn by cp: a name no entity has,
\* and a name that collides with an existing one.
TempNames == {"t", "a"}

(***************************************************************************)
(* Identifiers.                                                            *)
(***************************************************************************)
\* self.project_id: the identifier of the project the session is rooted at.
ProjectId == 0
\* Python's None, as an identifier no entity has.
None == -1

SEP == "/"

(***************************************************************************)
(* Python string helpers on token sequences.                               *)
(***************************************************************************)
Range(s) == {s[i] : i \in 1..Len(s)}

\* The tokens of a segment: nothing for the empty string.
Tok(name) == IF name = "" THEN <<>> ELSE <<name>>

\* str.split('/'): the list of segments, "" where two separators meet or the
\* string starts or ends with one.
RECURSIVE Split(_)
Split(path) ==
    IF path = <<>> THEN <<"">>
    ELSE IF Head(path) = SEP THEN <<"">> \o Split(Tail(path))
    ELSE LET r == Split(Tail(path))
         IN  <<Head(path)>> \o Tail(r)

\* '/'.join(list)
RECURSIVE Join(_)
Join(segs) ==
    IF segs = <<>> THEN <<>>
    ELSE IF Len(segs) = 1 THEN Tok(segs[1])
    ELSE Tok(segs[1]) \o <<SEP>> \o Join(Tail(segs))

\* list[:-1]
ButLast(segs) == SubSeq(segs, 1, Len(segs) - 1)

\* os.path.basename(path): what follows the last separator.
basename(path) == LET pl == Split(path) IN pl[Len(pl)]

\* The string of a path that holds no separator.
Str(path) == IF path = <<>> THEN "" ELSE Head(path)

\* os.path.join(a, b) for a non-empty a and a b that does not start with '/'.
path_join(a, b) == a \o <<SEP>> \o b

\* "if path and path[0] == '/': path = path[1:]"
StripSlash(path) == IF path # <<>> /\ Head(path) = SEP THEN Tail(path) ELSE path

\* "parent_id = self.project_id if parent_id is None else parent_id"
Default(parent_id) == IF parent_id = None THEN ProjectId ELSE parent_id

(***************************************************************************)
(* The remote store, as the calls of the Synapse client see it.            *)
(* A store value S is [ent |-> id :-> entity, next |-> next fresh id].     *)
(***************************************************************************)
Ent(name, parent, kind, content) ==
    [name |-> name, parent |-> parent, kind |-> kind, content |-> content]

Live(S) == DOMAIN S.ent

Children(S, p) == {i \in Live(S) : S.ent[i].parent = p}

IsContainer(S, i) == i \in Live(S) /\ S.ent[i].kind \in {"Folder", "Project"}

\* The entity itself and its containers up to the project.
RECURSIVE Ancestors(_, _)
Ancestors(S, i) ==
    IF i \notin Live(S) THEN {}
    ELSE {i} \cup Ancestors(S, S.ent[i].parent)

\* The entity and everything stored below it.
Subtree(S, i) == {j \in Live(S) : i \in Ancestors(S, j)}

\* Results of an operation: the store it leaves, how it ended ("ok" or the
\* error raised) and what it returned.
\* The value of a one-element set: { e : x \in {v} } binds x to the value of v,
\* as an assignment does, before e is evaluated.
Only(set) == CHOOSE v \in set : TRUE

Return(S, ret) == [S |-> S, res |-> "ok", ret |-> ret]
Raise(S, err) == [S |-> S, res |-> err, ret |-> None]

\* syn.findEntityId(name, parent=parent_id)
findEntityId(S, name, parent_id) ==
    LET hit == {i \in Children(S, parent_id) : S.ent[i].name = name}
    IN  IF name = "" \/ hit = {} THEN None ELSE CHOOSE i \in hit : TRUE

\* A store that makes the folder whatever the parent already holds.
storeFolder_unchecked(S, name, parent_id) ==
    IF name = "" \/ ~IsContainer(S, parent_id)
    THEN Raise(S, "StoreError")
    ELSE Return([ent |-> (S.next :> Ent(name, parent_id, "Folder", 0)) @@ S.ent,
                 next |-> S.next + 1], S.next)

\* syn.store(Folder(name, parent), createOrUpdate=False): a new folder, refused
\* when the name is empty, taken by a sibling, or the parent holds no children.
storeFolder(S, name, parent_id) ==
    IF name = "" \/ ~IsContainer(S, parent_id)
       \/ findEntityId(S, name, parent_id) # None
    THEN Raise(S, "StoreError")
    ELSE Return([ent |-> (S.next :> Ent(name, parent_id, "Folder", 0)) @@ S.ent,
                 next |-> S.next + 1], S.next)

\* syn.move(entity, new_parent): the entity changes container.  The store
\* refuses to move the project, to move an entity below itself, to put a
\* child under a file, and two siblings of one name.
move(S, id, new_parent) ==
    IF id \notin Live(S) \/ S.ent[id].kind = "Project"
       \/ ~IsContainer(S, new_parent) \/ new_parent \in Subtree(S, id)
       \/ findEntityId(S, S.ent[id].name, new_parent) \notin {None, id}
    THEN Raise(S, "StoreError")
    ELSE Return([S EXCEPT !.ent[id].parent = new_parent], None)

\* e = syn.get(id); e.properties['name'] = name; syn.store(e): the entity is
\* renamed.  The store refuses an empty name and a name a sibling has.
rename(S, id, name) ==
    IF id \notin Live(S) \/ name = ""
       \/ findEntityId(S, name, S.ent[id].parent) \notin {None, id}
    THEN Raise(S, "StoreError")
    ELSE Return([S EXCEPT !.ent[id].name = name], None)

\* synapseutils.copy(syn, id, destination): a copy of the entity and of its
\* whole subtree, names kept, under the destination; the copies get fresh
\* identifiers.  Refused for the project, for a destination that is no
\* container or lies inside the copied subtree, and for a name taken there.
copy(S, id, destination) ==
    IF id \notin Live(S) \/ S.ent[id].kind = "Project"
       \/ ~IsContainer(S, destination) \/ destination \in Subtree(S, id)
       \/ findEntityId(S, S.ent[id].name, destination) # None
    THEN Raise(S, "StoreError")
    ELSE LET sub == Subtree(S, id)
             new(i) == S.next + Cardinality({j \in sub : j < i})
             old(k) == CHOOSE i \in sub : new(i) = k
             copies == [k \in {new(i) : i \in sub} |->
                          [S.ent[old(k)] EXCEPT !.parent =
                              IF old(k) = id THEN destination ELSE new(@)]]
         IN  Return([ent |-> copies @@ S.ent,
                     next |-> S.next + Cardinality(sub)], new(id))

\* A delete that removes the entity alone and leaves what it held.
delete_shallow(S, id) ==
    IF id \notin Live(S) THEN Raise(S, "StoreError")
    ELSE Return([S EXCEPT !.ent = [i \in Live(S) \ {id} |-> S.ent[i]]], None)

\* syn.delete(entity_id): the entity and its whole subtree.
delete(S, id) ==
    IF id \notin Live(S) THEN Raise(S, "StoreError")
    ELSE LET keep == Live(S) \ Subtree(S, id)
         IN  Return([S EXCEPT !.ent = [i \in keep |-> S.ent[i]]], None)

(***************************************************************************)
(* SynapseSession.get_id                                                   *)
(***************************************************************************)
RECURSIVE get_id(_, _, _)
\* get_id with the remaining segments looked up below the first segment only
\* when it is the last but one: deeper paths restart from the first child.
get_id_stuck(S, path, parent_id0) ==
    LET parent_id == Default(parent_id0)
    IN  IF path = <<SEP>> THEN parent_id
        ELSE IF SEP \in Range(path)
        THEN LET path_list == Split(path)
                 child_id == findEntityId(S, path_list[1], parent_id)
             IN  get_id(S, Tok(basename(path)), child_id)
        ELSE findEntityId(S, Str(path), parent_id)

get_id(S, path, parent_id0) ==
    LET parent_id == Default(parent_id0)
    IN  IF path = <<SEP>> THEN parent_id
        ELSE IF SEP \in Range(path)
        THEN LET path_list == Split(path)
                 child_id == findEntityId(S, path_list[1], parent_id)
             IN  get_id(S, Join(Tail(path_list)), child_id)
        ELSE findEntityId(S, Str(path), parent_id)

(***************************************************************************)
(* SynapseSession.exists, dir_exists, file_exists                          *)
(***************************************************************************)
exists(S, path, concrete_type, parent_id0) ==
    LET parent_id == Default(parent_id0)
        fsynid == get_id(S, path, parent_id)
    IN  IF fsynid # None /\ fsynid \in Live(S)
        THEN S.ent[fsynid].kind \in concrete_type
        ELSE FALSE

dir_exists(S, path, parent_id) ==
    exists(S, StripSlash(path), {"Folder", "Project"}, parent_id)

file_exists(S, path, parent_id) ==
    exists(S, StripSlash(path), {"File"}, parent_id)

(***************************************************************************)
(* SynapseSession.mkdir                                                    *)
(***************************************************************************)
RECURSIVE mkdir(_, _, _)
mkdir(S, path0, parent_id0) ==
    LET parent_id == Default(parent_id0)
        path == StripSlash(path0)
    IN  IF dir_exists(S, path, parent_id) THEN Raise(S, "AlreadyExists")
        ELSE LET path_list == Split(path)
             IN  Only({
                 IF folder.res # "ok" THEN folder
                 ELSE IF Len(path_list) = 1 THEN folder
                 ELSE mkdir(folder.S, Join(Tail(path_list)), folder.ret)
                 : folder \in {IF dir_exists(S, Tok(path_list[1]), parent_id)
                               THEN Return(S, get_id(S, Tok(path_list[1]), parent_id))
                               ELSE storeFolder(S, path_list[1], parent_id)} })

(***************************************************************************)
(* SynapseSession.rm                                                       *)
(***************************************************************************)
rm(S, path0, parent_id0) ==
    LET parent_id == Default(parent_id0)
        path == StripSlash(path0)
        entity_id == get_id(S, path, parent_id)
    IN  IF entity_id = None THEN Raise(S, "NotFound")
        ELSE delete(S, entity_id)

(***************************************************************************)
(* SynapseSession.get_parent_id                                            *)
(***************************************************************************)
get_parent_id(S, path, parent_id0) ==
    LET parent_id == Default(parent_id0)
    IN  IF path = <<SEP>> /\ parent_id = ProjectId THEN Raise(S, "NoParent")
        ELSE IF SEP \in Range(path)
        THEN Return(S, get_id(S, Join(ButLast(Split(path))), parent_id))
        ELSE Return(S, parent_id)

(***************************************************************************)
(* A variant of mv that lacks the test of lines 328-330: it moves the      *)
(* source without looking at what the destination path names.              *)
(***************************************************************************)
mv_overwrite(S, src_path, dst_path0, parent_id0) ==
    LET parent_id == Default(parent_id0)
        dst_path == StripSlash(dst_path0)
    IN  IF get_id(S, src_path, parent_id) = None THEN Raise(S, "NotFound")
        ELSE LET dst_path_parent_id == get_parent_id(S, dst_path, parent_id)
             IN  IF dst_path_parent_id.res # "ok" THEN dst_path_parent_id
                 ELSE IF dst_path_parent_id.ret = None
                 THEN Raise(S, "InvalidDestination")
                 ELSE LET src_id == get_id(S, src_path, parent_id)
                      IN  Only({
                          IF moved.res # "ok" THEN moved
                          ELSE rename(moved.S, src_id, basename(dst_path))
                          : moved \in {move(S, src_id, dst_path_parent_id.ret)} })

(***************************************************************************)
(* A variant of mv that puts the entity back where it was when the rename  *)
(* is refused.                                                             *)
(***************************************************************************)
mv_rollback(S, src_path, dst_path0, parent_id0) ==
    LET parent_id == Default(parent_id0)
        dst_path == StripSlash(dst_path0)
    IN  IF get_id(S, src_path, parent_id) = None THEN Raise(S, "NotFound")
        ELSE IF get_id(S, dst_path, parent_id) # None
        THEN Raise(S, "AlreadyExists")
        ELSE LET dst_path_parent_id == get_parent_id(S, dst_path, parent_id)
             IN  IF dst_path_parent_id.res # "ok" THEN dst_path_parent_id
                 ELSE IF dst_path_parent_id.ret = None
                 THEN Raise(S, "InvalidDestination")
                 ELSE LET src_id == get_id(S, src_path, parent_id)
                      IN  Only({
                          IF moved.res # "ok" THEN moved
                          ELSE Only({
                               IF renamed.res # "ok" THEN Raise(S, renamed.res)
                               ELSE renamed
                               : renamed \in {rename(moved.S, src_id,
                                                     basename(dst_path))} })
                          : moved \in {move(S, src_id, dst_path_parent_id.ret)} })

(***************************************************************************)
(* SynapseSession.mv                                                       *)
(***************************************************************************)
mv(S, src_path, dst_path0, parent_id0) ==
    LET parent_id == Default(parent_id0)
        dst_path == StripSlash(dst_path0)
    IN  IF get_id(S, src_path, parent_id) = None THEN Raise(S, "NotFound")
        ELSE IF get_id(S, dst_path, parent_id) # None
        THEN Raise(S, "AlreadyExists")
        ELSE LET dst_path_parent_id == get_parent_id(S, dst_path, parent_id)
             IN  IF dst_path_parent_id.res # "ok" THEN dst_path_parent_id
                 ELSE IF dst_path_parent_id.ret = None
                 THEN Raise(S, "InvalidDestination")
                 ELSE LET src_id == get_id(S, src_path, parent_id)
                      IN  Only({
                          IF moved.res # "ok" THEN moved
                          ELSE rename(moved.S, src_id, basename(dst_path))
                          : moved \in {move(S, src_id, dst_path_parent_id.ret)} })

(***************************************************************************)
(* SynapseSession.cp.  temp_dir_name is the outcome of the random draw.    *)
(* The result also tells the step that ended the call and the identifier   *)
(* of the staging folder the call created (None before it exists).         *)
(***************************************************************************)
At(r, stage, tid) ==
    [S |-> r.S, res |-> r.res, ret |-> None, stage |-> stage, tid |-> tid]

cp(S, src_path, dst_path0, parent_id0, temp_dir_name) ==
    LET parent_id == Default(parent_id0)
        dst_path == StripSlash(dst_path0)
        temp == <<temp_dir_name>>
        src_fname == basename(src_path)
        dst_fname == basename(dst_path)
    IN  IF get_id(S, src_path, parent_id) = None
        THEN At(Raise(S, "NotFound"), "check", None)
        ELSE IF get_id(S, dst_path, parent_id) # None
        THEN At(Raise(S, "AlreadyExists"), "check", None)
        ELSE Only({
        IF dst_path_parent_id.res # "ok" THEN At(dst_path_parent_id, "check", None)
        ELSE IF dst_path_parent_id.ret = None
        THEN At(Raise(S, "InvalidDestination"), "check", None)
        ELSE Only({
        IF made.res # "ok" THEN At(made, "mkdir", None)
        ELSE Only({
        IF copied.res # "ok" THEN At(copied, "copy", made.ret)
        ELSE Only({
        IF mv1.res # "ok" THEN At(mv1, "mv1", made.ret)
        ELSE Only({
        IF mv2.res # "ok" THEN At(mv2, "mv2", made.ret)
        ELSE At(rm(mv2.S, temp, parent_id), "rm", made.ret)
        : mv2 \in {mv(mv1.S, path_join(temp, Tok(dst_fname)), dst_path, None)} })
        : mv1 \in {mv(copied.S, Tok(src_fname), Tok(dst_fname),
                      get_id(copied.S, temp, parent_id))} })
        : copied \in {copy(made.S, get_id(made.S, src_path, parent_id),
                           get_id(made.S, temp, parent_id))} })
        : made \in {mkdir(S, temp, parent_id)} })
        : dst_path_parent_id \in {get_parent_id(S, dst_path, parent_id)} })

(***************************************************************************)
(* The store calls used by upload, download and ls.                        *)
(***************************************************************************)
\* The elements of a finite set, in some order.
RECURSIVE SeqOf(_)
SeqOf(set) ==
    IF set = {} THEN <<>>
    ELSE LET x == CHOOSE x \in set : TRUE
         IN  <<x>> \o SeqOf(set \ {x})

\* The identifiers of a set, smallest first.
RECURSIVE ById(_)
ById(ids) ==
    IF ids = {} THEN <<>>
    ELSE LET x == CHOOSE x \in ids : \A y \in ids : x <= y
         IN  <<x>> \o ById(ids \ {x})

\* syn.getChildren(id, includeTypes=['folder', 'file']): the children as the
\* store lists them, here by identifier.
getChildren(S, id) == ById(Children(S, id))

\* syn.store(File(path, name, parent)): a file of that name under the parent,
\* with the content of the local file.  A file of that name is replaced by a
\* new version (same identifier); the store refuses an empty name, a parent
\* that is no container and the name of a folder.
storeFile(S, name, parent_id, content) ==
    LET e == findEntityId(S, name, parent_id)
    IN  IF name = "" \/ ~IsContainer(S, parent_id) THEN Raise(S, "StoreError")
        ELSE IF e = None
        THEN Return([ent |-> (S.next :> Ent(name, parent_id, "File", content)) @@ S.ent,
                     next |-> S.next + 1], S.next)
        ELSE IF S.ent[e].kind = "File"
        THEN Return([S EXCEPT !.ent[e].content = content], e)
        ELSE Raise(S, "StoreError")

\* syn.store(Folder(name, parent)): the folder of that name under the parent,
\* created when there is none.
storeFolderOrUpdate(S, name, parent_id) ==
    LET e == findEntityId(S, name, parent_id)
    IN  IF e = None THEN storeFolder(S, name, parent_id)
        ELSE IF S.ent[e].kind = "Folder" THEN Return(S, e)
        ELSE Raise(S, "StoreError")

(***************************************************************************)
(* The local filesystem: a function from local paths to what is there.  A  *)
(* local path is the sequence of its names from the working directory,     *)
(* which is the empty sequence.                                            *)
(***************************************************************************)
LocalFile(content) == [kind |-> "file", content |-> content]
LocalDir == [kind |-> "dir", content |-> 0]

\* os.path.exists, os.path.isfile, os.path.isdir
os_path_exists(D, p) == p \in DOMAIN D
os_path_isfile(D, p) == p \in DOMAIN D /\ D[p].kind = "file"
os_path_isdir(D, p) == p \in DOMAIN D /\ D[p].kind = "dir"

\* os.listdir(p): the names of the entries of a directory.
os_listdir(D, p) ==
    SeqOf({q[Len(q)] : q \in {r \in DOMAIN D : Len(r) = Len(p) + 1
                                               /\ SubSeq(r, 1, Len(p)) = p}})

\* os.path.basename of a local path.
local_basename(p) == IF p = <<>> THEN "" ELSE p[Len(p)]

\* pathlib.Path(p).parent
local_parent(p) == IF p = <<>> THEN <<>> ELSE SubSeq(p, 1, Len(p) - 1)

\* fname.startswith('.'): the names of the model that begin with a dot.
DotNames == {".h", ".d"}
startswith_dot(fname) == fname \in DotNames

(***************************************************************************)
(* SynapseSession.upload                                                   *)
(***************************************************************************)
RECURSIVE upload(_, _, _, _, _, _)
\* "for f in os.listdir(local_path): self.upload(join(local_path, f), f, ...)"
RECURSIVE upload_children(_, _, _, _, _, _)
upload_children(S, D, local_path, fs, folder_id, hidden) ==
    IF fs = <<>> THEN Return(S, None)
    ELSE Only({
         IF done.res # "ok" THEN done
         ELSE upload_children(done.S, D, local_path, Tail(fs), folder_id, hidden)
         : done \in {upload(S, D, Append(local_path, Head(fs)), <<Head(fs)>>,
                            folder_id, hidden)} })

\* An upload that names the remote file after the local one.
upload_localname(S, D, local_path, remote_path0, parent_id0, hidden) ==
    LET parent_id == Default(parent_id0)
        remote_path == StripSlash(remote_path0)
        container_path == Join(ButLast(Split(remote_path)))
        container_id == IF SEP \in Range(remote_path)
                        THEN get_id(S, container_path, parent_id)
                        ELSE parent_id
        fname == local_basename(local_path)
    IN  IF container_id = None THEN Raise(S, "NoDirectory")
        ELSE IF os_path_isfile(D, local_path)
        THEN IF hidden \/ ~startswith_dot(fname)
             THEN Only({ IF data.res # "ok" THEN data ELSE Return(data.S, None)
                         : data \in {storeFile(S, fname, container_id,
                                               D[local_path].content)} })
             ELSE Return(S, None)
        ELSE IF os_path_isdir(D, local_path)
        THEN Only({
             IF folder.res # "ok" THEN folder
             ELSE upload_children(folder.S, D, local_path, os_listdir(D, local_path),
                                  folder.ret, hidden)
             : folder \in {storeFolderOrUpdate(S, basename(remote_path), container_id)} })
        ELSE Return(S, None)

upload(S, D, local_path, remote_path0, parent_id0, hidden) ==
    LET parent_id == Default(parent_id0)
        remote_path == StripSlash(remote_path0)
        container_path == Join(ButLast(Split(remote_path)))
        container_id == IF SEP \in Range(remote_path)
                        THEN get_id(S, container_path, parent_id)
                        ELSE parent_id
        fname == local_basename(local_path)
    IN  IF container_id = None THEN Raise(S, "NoDirectory")
        ELSE IF os_path_isfile(D, local_path)
        THEN IF hidden \/ ~startswith_dot(fname)
             THEN Only({ IF data.res # "ok" THEN data ELSE Return(data.S, None)
                         : data \in {storeFile(S, basename(remote_path), container_id,
                                               D[local_path].content)} })
             ELSE Return(S, None)
        ELSE IF os_path_isdir(D, local_path)
        THEN Only({
             IF folder.res # "ok" THEN folder
             ELSE upload_children(folder.S, D, local_path, os_listdir(D, local_path),
                                  folder.ret, hidden)
             : folder \in {storeFolderOrUpdate(S, basename(remote_path), container_id)} })
        ELSE Return(S, None)

(***************************************************************************)
(* SynapseSession.download.  The result is the local filesystem the call   *)
(* leaves and how it ended; the store is only read.                        *)
(***************************************************************************)
ReturnD(D) == [D |-> D, res |-> "ok"]
RaiseD(D, err) == [D |-> D, res |-> err]

RECURSIVE download(_, _, _, _, _)
\* "for child in children: self.download(child['name'], join(...), remote_id)"
RECURSIVE download_children(_, _, _, _, _)
download_children(S, D, children, local_path, remote_id) ==
    IF children = <<>> THEN ReturnD(D)
    ELSE Only({
         IF done.res # "ok" THEN done
         ELSE download_children(S, done.D, Tail(children), local_path, remote_id)
         : done \in {download(S, D, <<S.ent[Head(children)].name>>,
                              Append(local_path, S.ent[Head(children)].name),
                              remote_id)} })

download(S, D, remote_path0, local_path, parent_id0) ==
    LET parent_id == Default(parent_id0)
        remote_path == StripSlash(remote_path0)
    IN  IF os_path_exists(D, local_path) THEN RaiseD(D, "LocalExists")
        ELSE IF ~os_path_isdir(D, local_parent(local_path))
        THEN RaiseD(D, "LocalParentMissing")
        ELSE IF file_exists(S, remote_path, parent_id)
        THEN ReturnD((local_path :> LocalFile(
                          S.ent[get_id(S, remote_path, parent_id)].content)) @@ D)
        ELSE IF dir_exists(S, remote_path, parent_id)
        THEN LET remote_id == get_id(S, remote_path, parent_id)
             IN  download_children(S, (local_path :> LocalDir) @@ D,
                                   getChildren(S, remote_id), local_path, remote_id)
        ELSE RaiseD(D, "InvalidRemote")

(***************************************************************************)
(* SynapseSession.ls: the names of the children, or the error raised.      *)
(***************************************************************************)
ls(S, remote_path, parent_id0) ==
    LET parent_id == Default(parent_id0)
    IN  IF ~dir_exists(S, remote_path, parent_id)
        THEN [res |-> "NoDirectory", files |-> <<>>]
        ELSE LET dir_id == get_id(S, remote_path, parent_id)
             IN  IF dir_id \notin Live(S)
                 THEN [res |-> "StoreError", files |-> <<>>]
                 ELSE LET children == getChildren(S, dir_id)
                      IN  [res |-> "ok",
                           files |-> [k \in 1..Len(children) |->
                                         S.ent[children[k]].name]]

(***************************************************************************)
(* The calls a client makes on a session.                                  *)
(***************************************************************************)
\* The paths a caller passes: one to MaxSegs names, with or without a leading
\* slash, and the two strings that denote the parent itself.
NameSeqs == UNION {[1..n -> Names] : n \in 1..MaxSegs}
Paths == {Join(s) : s \in NameSeqs} \cup {<<SEP>> \o Join(s) : s \in NameSeqs}
         \cup {<<>>, <<SEP>>}

\* The parent_id arguments: omitted (None) or the identifier of a folder.
Parents(S) == {None} \cup {i \in Live(S) : S.ent[i].kind = "Folder"}

Project == Ent("project", None, "Project", 0)

\* Contents of the project when the session is opened.
\* The empty project.
Store0 == [ent |-> (0 :> Project), next |-> 1]
\* a/, a/b (file), b/
Store1 ==
    [ent |-> (0 :> Project) @@ (1 :> Ent("a", 0, "Folder", 0))
             @@ (2 :> Ent("b", 1, "File", 1)) @@ (3 :> Ent("b", 0, "Folder", 0)),
     next |-> 4]
\* b/, b/a (file)
Store2 ==
    [ent |-> (0 :> Project) @@ (1 :> Ent("b", 0, "Folder", 0))
             @@ (2 :> Ent("a", 1, "File", 2)),
     next |-> 3]
\* a/, a/a/, a/a/b (file)
Store3 ==
    [ent |-> (0 :> Project) @@ (1 :> Ent("a", 0, "Folder", 0))
             @@ (2 :> Ent("a", 1, "Folder", 0)) @@ (3 :> Ent("b", 2, "File", 1)),
     next |-> 4]
\* a/, a/a (file), b/, b/a (file)
Store4 ==
    [ent |-> (0 :> Project) @@ (1 :> Ent("a", 0, "Folder", 0))
             @@ (2 :> Ent("a", 1, "File", 1)) @@ (3 :> Ent("b", 0, "Folder", 0))
             @@ (4 :> Ent("a", 3, "File", 2)),
     next |-> 5]

InitStores == {Store0, Store1, Store2, Store3, Store4}

\* The local working directory: a file a, a hidden file .h, and a directory b
\* holding a file, a hidden file and a directory with one file and an empty
\* hidden directory.
Disk0 ==
    (<<>> :> LocalDir) @@ (<<"a">> :> LocalFile(1)) @@ (<<".h">> :> LocalFile(3))
    @@ (<<"b">> :> LocalDir) @@ (<<"b", "a">> :> LocalFile(2))
    @@ (<<"b", ".h">> :> LocalFile(3)) @@ (<<"b", "b">> :> LocalDir)
    @@ (<<"b", "b", "a">> :> LocalFile(1)) @@ (<<"b", "b", ".d">> :> LocalDir)

\* The local paths a caller uploads: the entries above and a path where
\* nothing is.
UploadSources == {<<"a">>, <<".h">>, <<"b">>, <<"b", "b">>, <<"n">>}

\* The local paths a caller downloads to: two free paths, a path that is
\* taken, and a path in a directory that does not exist.
DownloadTargets == {<<"n">>, <<"b", "n">>, <<"a">>, <<"n", "n">>}

\* The record of the call made on the session: its name and arguments, how it
\* ended, what it returned, the store it started from, and how many calls
\* the session has made.  A behaviour of Spec is the project as the session
\* finds it, then one call.
Call(op, path, dst, parent, temp, r, stage, tid) ==
    [op |-> op, path |-> path, dst |-> dst, parent |-> parent, temp |-> temp,
     res |-> r.res, ret |-> r.ret, stage |-> stage, tid |-> tid,
     pre |-> syn, local |-> <<>>, hidden |-> FALSE, out |-> <<>>,
     predisk |-> disk, uploaded |-> <<>>, n |-> last.n + 1]

\* The record of a call that takes a local path or returns something else
\* than an identifier.
FileCall(op, path, local, parent, hidden, res, out) ==
    [Call(op, path, <<>>, parent, "", [res |-> res, ret |-> None], "", None)
        EXCEPT !.local = local, !.hidden = hidden, !.out = out]

Init ==
    /\ syn \in InitStores
    /\ disk = Disk0
    /\ last = [op |-> "init", path |-> <<>>, dst |-> <<>>, parent |-> None,
               temp |-> "", res |-> "ok", ret |-> None, stage |-> "", tid |-> None,
               pre |-> syn, local |-> <<>>, hidden |-> FALSE, out |-> <<>>,
               predisk |-> disk, uploaded |-> <<>>, n |-> 0]

Do_get_id ==
    /\ last.op = "init"
    /\ \E path \in Paths, parent_id \in Parents(syn) :
          /\ last' = Call("get_id", path, <<>>, parent_id, "",
                          Return(syn, get_id(syn, path, parent_id)), "", None)
          /\ UNCHANGED <<syn, disk>>

Do_mkdir ==
    /\ last.op = "init"
    /\ \E path \in Paths, parent_id \in Parents(syn) :
          \E r \in {mkdir(syn, path, parent_id)} :
              /\ syn' = r.S
              /\ last' = Call("mkdir", path, <<>>, parent_id, "", r, "", None)
              /\ UNCHANGED disk

Do_rm ==
    /\ last.op = "init"
    /\ \E path \in Paths, parent_id \in Parents(syn) :
          \E r \in {rm(syn, path, parent_id)} :
              /\ syn' = r.S
              /\ last' = Call("rm", path, <<>>, parent_id, "", r, "", None)
              /\ UNCHANGED disk

Do_mv ==
    /\ last.op = "init"
    /\ \E src_path \in Paths, dst_path \in Paths, parent_id \in Parents(syn) :
          \E r \in {mv(syn, src_path, dst_path, parent_id)} :
              /\ syn' = r.S
              /\ last' = Call("mv", src_path, dst_path, parent_id, "", r, "", None)
              /\ UNCHANGED disk

Do_cp ==
    /\ last.op = "init"
    /\ \E src_path \in Paths, dst_path \in Paths, parent_id \in Parents(syn),
          temp_dir_name \in TempNames :
          \E r \in {cp(syn, src_path, dst_path, parent_id, temp_dir_name)} :
              /\ syn' = r.S
              /\ last' = Call("cp", src_path, dst_path, parent_id, temp_dir_name,
                              r, r.stage, r.tid)
              /\ UNCHANGED disk

Do_dir_exists ==
    /\ last.op = "init"
    /\ \E path \in Paths, parent_id \in Parents(syn) :
          /\ last' = FileCall("dir_exists", path, <<>>, parent_id, FALSE, "ok",
                              dir_exists(syn, path, parent_id))
          /\ UNCHANGED <<syn, disk>>

Do_file_exists ==
    /\ last.op = "init"
    /\ \E path \in Paths, parent_id \in Parents(syn) :
          /\ last' = FileCall("file_exists", path, <<>>, parent_id, FALSE, "ok",
                              file_exists(syn, path, parent_id))
          /\ UNCHANGED <<syn, disk>>

Do_get_parent_id ==
    /\ last.op = "init"
    /\ \E path \in Paths, parent_id \in Parents(syn) :
          /\ last' = Call("get_parent_id", path, <<>>, parent_id, "",
                          get_parent_id(syn, path, parent_id), "", None)
          /\ UNCHANGED <<syn, disk>>

Do_ls ==
    /\ last.op = "init"
    /\ \E remote_path \in Paths, parent_id \in Parents(syn) :
          \E r \in {ls(syn, remote_path, parent_id)} :
              /\ last' = FileCall("ls", remote_path, <<>>, parent_id, FALSE,
                                  r.res, r.files)
              /\ UNCHANGED <<syn, disk>>

Do_upload ==
    /\ last.op = "init"
    /\ \E local_path \in UploadSources, remote_path \in Paths,
          parent_id \in Parents(syn), hidden \in BOOLEAN :
          \E r \in {upload(syn, disk, local_path, remote_path, parent_id, hidden)} :
              /\ syn' = r.S
              /\ last' = FileCall("upload", remote_path, local_path, parent_id,
                                  hidden, r.res, <<>>)
              /\ UNCHANGED disk

Do_download ==
    /\ last.op = "init"
    /\ \E remote_path \in Paths, local_path \in DownloadTargets,
          parent_id \in Parents(syn) :
          \E r \in {download(syn, disk, remote_path, local_path, parent_id)} :
              /\ disk' = r.D
              /\ last' = FileCall("download", remote_path, local_path, parent_id,
                                  FALSE, r.res, <<>>)
              /\ UNCHANGED syn

\* After an upload that returned, the download of the remote path it was
\* given, under the same parent.  The record keeps the local path that was
\* uploaded and the store the upload started from.
Do_download_back ==
    /\ last.op = "upload" /\ last.res = "ok"
    /\ \E local_path \in DownloadTargets :
          \E r \in {download(syn, disk, last.path, local_path, last.parent)} :
              /\ disk' = r.D
              /\ last' = [FileCall("download_back", last.path, local_path,
                                   last.parent, last.hidden, r.res, <<>>)
                             EXCEPT !.uploaded = last.local, !.pre = last.pre]
              /\ UNCHANGED syn

Next ==
    \/ Do_get_id \/ Do_mkdir \/ Do_rm \/ Do_mv \/ Do_cp
    \/ Do_dir_exists \/ Do_file_exists \/ Do_get_parent_id \/ Do_ls
    \/ Do_upload \/ Do_download \/ Do_download_back

Spec == Init /\ [][Next]_vars

(***************************************************************************)
(* Sessions of several calls: up to MaxCalls calls that write to the       *)
(* store, one after the other, each on the store the call before left      *)
(* (also when that call raised part-way).  The paths have one or two       *)
(* segments.                                                               *)
(***************************************************************************)
SeqPaths == {Join(q) : q \in [1..1 -> Names] \cup [1..2 -> Names]}

Seq_mkdir ==
    /\ last.n < MaxCalls
    /\ \E path \in SeqPaths, parent_id \in Parents(syn) :
          \E r \in {mkdir(syn, path, parent_id)} :
              /\ syn' = r.S
              /\ last' = Call("mkdir", path, <<>>, parent_id, "", r, "", None)
              /\ UNCHANGED disk

Seq_upload ==
    /\ last.n < MaxCalls
    /\ \E local_path \in UploadSources, remote_path \in SeqPaths,
          parent_id \in Parents(syn) :
          \E r \in {upload(syn, disk, local_path, remote_path, parent_id, FALSE)} :
              /\ syn' = r.S
              /\ last' = FileCall("upload", remote_path, local_path, parent_id,
                                  FALSE, r.res, <<>>)
              /\ UNCHANGED disk

Seq_rm ==
    /\ last.n < MaxCalls
    /\ \E path \in SeqPaths, parent_id \in Parents(syn) :
          \E r \in {rm(syn, path, parent_id)} :
              /\ syn' = r.S
              /\ last' = Call("rm", path, <<>>, parent_id, "", r, "", None)
              /\ UNCHANGED disk

Seq_mv ==
    /\ last.n < MaxCalls
    /\ \E src_path \in SeqPaths, dst_path \in SeqPaths \cup {<<>>},
          parent_id \in Parents(syn) :
          \E r \in {mv(syn, src_path, dst_path, parent_id)} :
              /\ syn' = r.S
              /\ last' = Call("mv", src_path, dst_path, parent_id, "", r, "", None)
              /\ UNCHANGED disk

Seq_cp ==
    /\ last.n < MaxCalls
    /\ \E src_path \in SeqPaths, dst_path \in SeqPaths,
          parent_id \in Parents(syn), temp_dir_name \in TempNames :
          \E r \in {cp(syn, src_path, dst_path, parent_id, temp_dir_name)} :
              /\ syn' = r.S
              /\ last' = Call("cp", src_path, dst_path, parent_id, temp_dir_name,
                              r, r.stage, r.tid)
              /\ UNCHANGED disk

NextSeq == Seq_mkdir \/ Seq_upload \/ Seq_rm \/ Seq_mv \/ Seq_cp

SpecSeq == Init /\ [][NextSeq]_vars

(***************************************************************************)
(* Well-formedness of the store: the project is there, every other entity  *)
(* lies in a live container, and no two siblings share a name.             *)
(***************************************************************************)
StoreOK ==
    /\ ProjectId \in Live(syn)
    /\ \A i \in Live(syn) \ {ProjectId} :
          /\ IsContainer(syn, syn.ent[i].parent)
          /\ ProjectId \in Ancestors(syn, i)
          /\ i < syn.next
          /\ syn.ent[i].name # ""
    /\ \A i, j \in Live(syn) :
          (i # j /\ syn.ent[i].parent = syn.ent[j].parent)
              => syn.ent[i].name # syn.ent[j].name

(***************************************************************************)
(* What the specification means by the entity at a path: the leading slash *)
(* is dropped, the empty path is the parent itself, and every segment is   *)
(* the name of a child of the entity the segments before it lead to.       *)
(***************************************************************************)
RECURSIVE Walk(_, _, _)
Walk(S, segs, cur) ==
    IF segs = <<>> THEN cur
    ELSE LET hit == {i \in Children(S, cur) : S.ent[i].name = Head(segs)}
         IN  IF hit = {} THEN None
             ELSE Walk(S, Tail(segs), CHOOSE i \in hit : TRUE)

Located(S, path, parent_id) ==
    IF StripSlash(path) = <<>> THEN Default(parent_id)
    ELSE Walk(S, Split(StripSlash(path)), Default(parent_id))

\* A path of the form s1/.../sn, n >= 1: names separated by slashes.
Plain(path) == path # <<>> /\ Head(path) # SEP

NSegs(path) == Len(Split(StripSlash(path)))

\* The path of the folder that holds the entity a path with at least one
\* segment names: all its segments but the last.
Container(path) == Join(ButLast(Split(StripSlash(path))))

\* The last segment of a path.
Leaf(path) == basename(StripSlash(path))

\* The subtree below i in S1 and the subtree below j in S2 hold the same names,
\* types and contents at the same places (the names of i and j may differ).
RECURSIVE SameTree(_, _, _, _)
SameTree(S1, i, S2, j) ==
    /\ S1.ent[i].kind = S2.ent[j].kind
    /\ S1.ent[i].content = S2.ent[j].content
    /\ {S1.ent[c].name : c \in Children(S1, i)} = {S2.ent[c].name : c \in Children(S2, j)}
    /\ \A c \in Children(S1, i) : \A e \in Children(S2, j) :
          S1.ent[c].name = S2.ent[e].name => SameTree(S1, c, S2, e)

\* The entity i and everything below it are in S2 exactly as they are in S1.
Untouched(S1, S2, i) ==
    \A k \in Subtree(S1, i) : k \in Live(S2) /\ S2.ent[k] = S1.ent[k]

\* The three conditions under which mv and cp are meant to go through: src
\* names an entity, dst names none, and the folder that is to hold dst exists.
Movable(S, src, dst, parent_id) ==
    /\ Located(S, src, parent_id) # None
    /\ Located(S, dst, parent_id) = None
    /\ IsContainer(S, Located(S, Container(dst), parent_id))

\* The staging name drawn by cp is the name of no child of the parent and
\* occurs in no path of the caller.
FreshTemp ==
    /\ last.temp \notin Names
    /\ \A c \in Children(last.pre, Default(last.parent)) :
          last.pre.ent[c].name # last.temp

(***************************************************************************)
(* Claims.                                                                 *)
(***************************************************************************)

\* C1: get_id returns None whenever some segment of the path has no child of
\* that name under the entity the preceding segments lead to, and never
\* returns the identifier of an entity that is not located at the path.
C1_MissingSegmentGivesNone ==
    (last.op = "get_id" /\ Plain(last.path))
        => /\ Located(last.pre, last.path, last.parent) = None => last.ret = None
           /\ last.ret # None => last.ret = Located(last.pre, last.path, last.parent)

\* C2: for a path s1/.../sn whose every segment is a child of the entity the
\* segments before it lead to, get_id returns the identifier of the entity
\* named sn at that position.
C2_ValidPathGivesId ==
    (last.op = "get_id" /\ Plain(last.path)
     /\ Located(last.pre, last.path, last.parent) # None)
        => last.ret = Located(last.pre, last.path, last.parent)

\* C2 witness: a file three levels below the parent was looked up and found.
C2_Witness ==
    /\ last.op = "get_id" /\ Plain(last.path) /\ NSegs(last.path) = 3
    /\ last.ret # None /\ last.ret = Located(last.pre, last.path, last.parent)
    /\ last.pre.ent[last.ret].kind = "File"

\* C3: when src names an entity, dst names none and the folder that is to
\* hold dst exists, cp(src, dst) returns normally; afterwards src is the same
\* entity with an unchanged subtree, dst is a new entity whose subtree has the
\* names, types and contents of src's, and no staging folder is left.  (Stated
\* for the default parent and a staging name that collides with nothing.)
C3_CpCopies ==
    (last.op = "cp" /\ last.parent = None /\ FreshTemp /\ Plain(last.path)
     /\ Movable(last.pre, last.path, last.dst, last.parent))
        => /\ last.res = "ok"
           /\ Located(syn, last.path, last.parent)
                 = Located(last.pre, last.path, last.parent)
           /\ Untouched(last.pre, syn, Located(last.pre, last.path, last.parent))
           /\ Located(syn, last.dst, last.parent) \in Live(syn) \ Live(last.pre)
           /\ SameTree(last.pre, Located(last.pre, last.path, last.parent),
                       syn, Located(syn, last.dst, last.parent))
           /\ last.tid \notin Live(syn)
           /\ \A c \in Children(syn, ProjectId) : syn.ent[c].name # last.temp

\* C4: once cp has created its staging folder, the folder is deleted by the
\* time cp returns or raises, whichever step ended the call.  (Stated for the
\* default parent, a staging name that collides with nothing, and a src, dst
\* pair that meets the three conditions of cp.)
C4_StagingReleased ==
    (last.op = "cp" /\ last.tid # None
     /\ last.parent = None /\ FreshTemp /\ Plain(last.path)
     /\ Movable(last.pre, last.path, last.dst, last.parent))
        => /\ last.tid \notin Live(syn)
           /\ \A c \in Children(syn, ProjectId) : syn.ent[c].name # last.temp

\* C5: if mv(src, dst, parent) returns normally, src no longer names an
\* entity, dst names the entity src named before, under dst's last segment
\* and in the folder dst's other segments lead to, and everything below that
\* entity is as it was.
MvMoved(e) ==
    /\ e # None
    /\ Located(syn, last.path, last.parent) = None
    /\ Located(syn, last.dst, last.parent) = e
    /\ syn.ent[e].name = Leaf(last.dst)
    /\ syn.ent[e].parent = Located(syn, Container(last.dst), last.parent)
    /\ \A k \in Subtree(last.pre, e) \ {e} :
          k \in Live(syn) /\ syn.ent[k] = last.pre.ent[k]

C5_MvRelocates ==
    (last.op = "mv" /\ last.res = "ok")
        => MvMoved(Located(last.pre, last.path, last.parent))

\* C6: mv checks, in this order, that src names an entity (NotFound if not),
\* that dst names none (AlreadyExists if it does) and that every segment of
\* dst's containing path exists (InvalidDestination if not); in each of the
\* three cases the store is left as it was.
C6_MvPreconditions ==
    (last.op = "mv" /\ last.parent = None /\ Plain(last.path) /\ Plain(last.dst))
        => LET src == Located(last.pre, last.path, last.parent)
               dst == Located(last.pre, last.dst, last.parent)
               dir == Located(last.pre, Container(last.dst), last.parent)
           IN  /\ src = None => (last.res = "NotFound" /\ syn = last.pre)
               /\ (src # None /\ dst # None)
                     => (last.res = "AlreadyExists" /\ syn = last.pre)
               /\ (src # None /\ dst = None /\ dir = None)
                     => (last.res = "InvalidDestination" /\ syn = last.pre)

\* A path that names an entity other than the parent itself.
Names_Entity(S, path, parent_id) ==
    StripSlash(path) # <<>> /\ Located(S, path, parent_id) # None

Prefix(path, k) == Join(SubSeq(Split(StripSlash(path)), 1, k))

\* C8: for P = s1/.../sn that does not denote an existing folder and none of
\* whose prefixes names a file, mkdir(P) returns the identifier of the leaf
\* folder; afterwards every prefix is a folder, the prefixes that existed are
\* the same entities, nothing that existed has changed, and exactly the
\* missing segments have been created.
C8_MkdirCreatesMissing ==
    (last.op = "mkdir" /\ last.parent = None /\ Plain(last.path)
     /\ Located(last.pre, last.path, last.parent) = None
     /\ \A k \in 1..NSegs(last.path) :
           LET e == Located(last.pre, Prefix(last.path, k), last.parent)
           IN  e # None => last.pre.ent[e].kind = "Folder")
        => /\ last.res = "ok"
           /\ last.ret = Located(syn, last.path, last.parent)
           /\ \A k \in 1..NSegs(last.path) :
                 /\ dir_exists(syn, Prefix(last.path, k), last.parent)
                 /\ IsContainer(syn, Located(syn, Prefix(last.path, k), last.parent))
                 /\ Located(last.pre, Prefix(last.path, k), last.parent) # None
                       => Located(syn, Prefix(last.path, k), last.parent)
                            = Located(last.pre, Prefix(last.path, k), last.parent)
           /\ \A i \in Live(last.pre) : i \in Live(syn) /\ syn.ent[i] = last.pre.ent[i]
           /\ Cardinality(Live(syn) \ Live(last.pre))
                 = Cardinality({k \in 1..NSegs(last.path) :
                      Located(last.pre, Prefix(last.path, k), last.parent) = None})

\* C9: mkdir(P) where every segment of P exists and P denotes a folder fails
\* with the already-exists error and leaves the store unchanged; mkdir(P)
\* where the first segment of P is a folder but P itself names nothing is not
\* rejected as already existing.
C9_MkdirExisting ==
    (last.op = "mkdir" /\ last.parent = None /\ Plain(last.path))
        => LET e == Located(last.pre, last.path, last.parent)
           IN  /\ (e # None /\ last.pre.ent[e].kind = "Folder")
                     => (last.res = "AlreadyExists" /\ syn = last.pre)
               /\ (e = None /\ NSegs(last.path) > 1
                   /\ dir_exists(last.pre, Prefix(last.path, 1), last.parent))
                     => last.res # "AlreadyExists"

\* C10: rm(P, parent) fails with the not-found error and deletes nothing when
\* no entity is located at P under parent, and rm never deletes an entity
\* located elsewhere than at P.
C10_RmOnlyAtPath ==
    (last.op = "rm" /\ last.parent = None /\ Plain(last.path))
        => LET e == Located(last.pre, last.path, last.parent)
           IN  /\ e = None => (last.res = "NotFound" /\ syn = last.pre)
               /\ \A i \in Live(last.pre) \ Live(syn) : i \in Subtree(last.pre, e)

\* C11: after rm(P) returned normally for a P that named an entity E,
\* file_exists(P) and dir_exists(P) are false, E and all of its subtree are
\* gone, and every entity outside the subtree is in the store as it was.
C11_RmRemovesSubtree ==
    (last.op = "rm" /\ last.res = "ok"
     /\ Located(last.pre, last.path, last.parent) # None)
        => LET E == Located(last.pre, last.path, last.parent)
           IN  /\ ~file_exists(syn, last.path, last.parent)
               /\ ~dir_exists(syn, last.path, last.parent)
               /\ Subtree(last.pre, E) \cap Live(syn) = {}
               /\ Live(syn) = Live(last.pre) \ Subtree(last.pre, E)
               /\ \A i \in Live(syn) : syn.ent[i] = last.pre.ent[i]

\* C11 witness: a folder that holds a file was removed from inside another
\* folder, which is still there.
C11_Witness ==
    /\ last.op = "rm" /\ last.res = "ok" /\ NSegs(last.path) = 2
    /\ Located(last.pre, last.path, last.parent) # None
    /\ last.pre.ent[Located(last.pre, last.path, last.parent)].kind = "Folder"
    /\ Children(last.pre, Located(last.pre, last.path, last.parent)) # {}
    /\ Located(syn, Container(last.path), last.parent) # None
    /\ Cardinality(Live(syn)) = Cardinality(Live(last.pre)) - 2

\* C12: cp(src, dst, parent_id=X) for a folder X takes src, dst and the
\* staging folder relative to X in all of its steps: when src names an entity
\* under X, dst names none and dst's folder exists, cp returns normally, dst
\* names under X a copy of what src names under X, nothing outside X's
\* subtree is changed, and the staging folder is gone.  (Stated for src and
\* dst of different last segments and a staging name nothing has.)
C12_CpUnderParent ==
    (last.op = "cp" /\ last.parent # None /\ FreshTemp
     /\ Plain(last.path) /\ Plain(last.dst)
     /\ Movable(last.pre, last.path, last.dst, last.parent)
     /\ basename(last.path) # Leaf(last.dst))
        => /\ last.res = "ok"
           /\ Located(syn, last.dst, last.parent) \in Live(syn) \ Live(last.pre)
           /\ SameTree(last.pre, Located(last.pre, last.path, last.parent),
                       syn, Located(syn, last.dst, last.parent))
           /\ \A i \in Live(last.pre) \ Subtree(last.pre, last.parent) :
                 i \in Live(syn) /\ syn.ent[i] = last.pre.ent[i]
           /\ last.tid \notin Live(syn)

\* C13: upload to a remote path of several segments whose containing folder
\* (all segments but the last, under the parent) does not exist fails with the
\* directory-does-not-exist error and leaves the store as it was.
C13_UploadNeedsContainer ==
    (last.op = "upload" /\ NSegs(last.path) > 1
     /\ Located(last.pre, Container(last.path), last.parent) = None)
        => (last.res = "NoDirectory" /\ syn = last.pre)

\* What a local filesystem holds at a path and below it: the kind and the
\* content of every entry, by its path relative to the top.
LocalTree(D, top) ==
    {[rel |-> SubSeq(q, Len(top) + 1, Len(q)), node |-> D[q]] :
        q \in {r \in DOMAIN D : Len(r) >= Len(top) /\ SubSeq(r, 1, Len(top)) = top}}

\* C14: for a local tree T and a remote path R that names nothing and whose
\* folder exists, upload(T, R) with default arguments followed by
\* download(R, T') to a free local path T' gives at T' the directories, file
\* names and file contents of T.
C14_RoundTrip ==
    (last.op = "download_back" /\ last.parent = None /\ ~last.hidden
     /\ Plain(last.path)
     /\ Located(last.pre, last.path, None) = None
     /\ IsContainer(last.pre, Located(last.pre, Container(last.path), None))
     /\ os_path_exists(last.predisk, last.uploaded)
     /\ ~os_path_exists(last.predisk, last.local)
     /\ os_path_isdir(last.predisk, local_parent(last.local)))
        => /\ last.res = "ok"
           /\ LocalTree(disk, last.local) = LocalTree(last.predisk, last.uploaded)

\* The entries of a local tree that upload stores when hidden is false: all
\* but the files whose name begins with a dot.
Visible(tree) ==
    {e \in tree : ~(e.node.kind = "file" /\ e.rel # <<>>
                    /\ startswith_dot(e.rel[Len(e.rel)]))}

\* The conditions of the round trip: default arguments, a remote path that
\* names nothing and whose folder exists, a local tree and a free local path.
RoundTrip ==
    /\ last.op = "download_back" /\ last.parent = None /\ ~last.hidden
    /\ Plain(last.path)
    /\ Located(last.pre, last.path, None) = None
    /\ IsContainer(last.pre, Located(last.pre, Container(last.path), None))
    /\ os_path_exists(last.predisk, last.uploaded)
    /\ ~os_path_exists(last.predisk, last.local)
    /\ os_path_isdir(last.predisk, local_parent(last.local))

\* C14 as amended: the round trip gives at T' the tree of T without the files
\* whose name begins with a dot; when T is itself such a file nothing is
\* uploaded, the download fails and the local filesystem is as it was.
C14_RoundTripVisible ==
    RoundTrip
        => IF os_path_isfile(last.predisk, last.uploaded)
              /\ startswith_dot(local_basename(last.uploaded))
           THEN last.res = "InvalidRemote" /\ disk = last.predisk /\ syn = last.pre
           ELSE /\ last.res = "ok"
                /\ LocalTree(disk, last.local)
                      = Visible(LocalTree(last.predisk, last.uploaded))

\* C14 witness: a directory with a file, a hidden file and a nested directory
\* went to a remote path inside a folder and came back without the hidden
\* file.
C14_Witness ==
    /\ RoundTrip /\ last.res = "ok" /\ NSegs(last.path) = 2
    /\ last.uploaded = <<"b">>
    /\ os_path_isfile(disk, last.local \o <<"b", "a">>)
    /\ os_path_isdir(disk, last.local \o <<"b", ".d">>)
    /\ ~os_path_exists(disk, Append(last.local, ".h"))
    /\ LocalTree(disk, last.local) # LocalTree(last.predisk, last.uploaded)

\* C15: download fails and leaves the local filesystem as it was when the
\* local destination exists, when the directory that is to hold it does not
\* exist, and when the remote path names neither a file nor a folder; the two
\* local tests come first, whatever the remote path names.
C15_DownloadRefusals ==
    last.op = "download"
        => LET e == Located(last.pre, last.path, last.parent)
               taken == os_path_exists(last.predisk, last.local)
               homeless == ~os_path_isdir(last.predisk, local_parent(last.local))
           IN  /\ taken => (last.res = "LocalExists" /\ disk = last.predisk)
               /\ (~taken /\ homeless)
                     => (last.res = "LocalParentMissing" /\ disk = last.predisk)
               /\ (~taken /\ ~homeless
                   /\ (e = None \/ last.pre.ent[e].kind \notin {"File", "Folder"}))
                     => (last.res = "InvalidRemote" /\ disk = last.predisk)

\* C16: dir_exists(P) is true exactly when get_id(P) gives an identifier and
\* that entity is a Folder or the Project, file_exists(P) exactly when get_id(P)
\* gives an identifier and the entity is a File; neither raises nor changes the
\* store.  (Stated for the default parent.)
C16_ExistsFollowsGetId ==
    (last.op \in {"dir_exists", "file_exists"} /\ last.parent = None)
        => LET id == get_id(last.pre, last.path, last.parent)
               types == IF last.op = "dir_exists" THEN {"Folder", "Project"}
                        ELSE {"File"}
           IN  /\ last.res = "ok" /\ syn = last.pre
               /\ last.out = (id # None /\ last.pre.ent[id].kind \in types)

\* C17: get_id returns the parent identifier when the path is '/' and when it
\* is the empty string, and so dir_exists('/') and dir_exists('') are true on a
\* parent that is a folder or the project.
C17_EmptyPathIsParent ==
    (last.path \in {<<>>, <<SEP>>} /\ IsContainer(last.pre, Default(last.parent)))
        => /\ last.op = "get_id" => last.ret = Default(last.parent)
           /\ last.op = "dir_exists" => last.out = TRUE

\* A path '/p' with a non-empty p.
Slashed(path) == Len(path) > 1 /\ Head(path) = SEP

\* The call just made has the outcome r: the store left, how it ended and
\* what it returned.
SameOutcome(r) == r.S = syn /\ r.res = last.res /\ r.ret = last.ret

\* C18: for every operation that takes a remote path, and every parent, the
\* call with '/p' has the result and the effect of the call with 'p' (for mv
\* and cp, in src and in dst; p holds at least one name).
C18_LeadingSlash ==
    ((Slashed(last.path) \/ Slashed(last.dst))
     /\ StripSlash(last.path) # <<>>
     /\ (last.op \in {"mv", "cp"} => StripSlash(last.dst) # <<>>))
        => LET p == StripSlash(last.path)
               d == StripSlash(last.dst)
           IN  /\ last.op = "dir_exists"
                     => last.out = dir_exists(last.pre, p, last.parent)
               /\ last.op = "file_exists"
                     => last.out = file_exists(last.pre, p, last.parent)
               /\ last.op = "mkdir" => SameOutcome(mkdir(last.pre, p, last.parent))
               /\ last.op = "rm" => SameOutcome(rm(last.pre, p, last.parent))
               /\ last.op = "ls"
                     => LET r == ls(last.pre, p, last.parent)
                        IN  r.res = last.res /\ r.files = last.out
               /\ last.op = "upload"
                     => LET r == upload(last.pre, last.predisk, last.local, p,
                                        last.parent, last.hidden)
                        IN  r.S = syn /\ r.res = last.res
               /\ last.op = "download"
                     => LET r == download(last.pre, last.predisk, p, last.local,
                                          last.parent)
                        IN  r.D = disk /\ r.res = last.res
               /\ last.op = "mv" => SameOutcome(mv(last.pre, p, d, last.parent))
               /\ last.op = "cp"
                     => SameOutcome(cp(last.pre, p, d, last.parent, last.temp))

\* C19: ls(P, parent) returns the names of the immediate children of the
\* folder located at P, in the order the store lists them, and changes
\* nothing; it fails when P names nothing or names a file.
C19_LsListsChildren ==
    (last.op = "ls" /\ Plain(last.path))
        => LET e == Located(last.pre, last.path, last.parent)
               children == getChildren(last.pre, e)
           IN  /\ syn = last.pre /\ disk = last.predisk
               /\ IsContainer(last.pre, e)
                     => /\ last.res = "ok"
                        /\ last.out = [k \in 1..Len(children) |->
                                          last.pre.ent[children[k]].name]
               /\ ~IsContainer(last.pre, e) => last.res # "ok"

\* C20: get_parent_id(path, parent) returns parent when path holds no '/',
\* and otherwise the entity all segments but the last lead to (None when they
\* lead nowhere), whether or not path names something; asking for the parent
\* of the project root ('/' or the empty path with the default parent) fails.
C20_ParentOfPath ==
    last.op = "get_parent_id"
        => /\ (Plain(last.path) /\ NSegs(last.path) = 1)
                 => (last.res = "ok" /\ last.ret = Default(last.parent))
           /\ (Plain(last.path) /\ NSegs(last.path) > 1)
                 => (last.res = "ok"
                     /\ last.ret = Located(last.pre, Container(last.path), last.parent))
           /\ (last.path \in {<<>>, <<SEP>>} /\ last.parent = None)
                 => last.res = "NoParent"

C22_MvPastNamesake ==
    (last.op = "mv" /\ last.parent = None /\ Plain(last.path) /\ Plain(last.dst)
     /\ Movable(last.pre, last.path, last.dst, last.parent)
     /\ Located(last.pre, Container(last.dst), last.parent)
           \notin Subtree(last.pre, Located(last.pre, last.path, last.parent)))
        => /\ last.res = "ok"
           /\ Located(syn, last.dst, last.parent)
                 = Located(last.pre, last.path, last.parent)
           /\ Located(syn, last.path, last.parent) = None

\* C23: cp(src, dst) succeeds when src and dst have the same last segment and
\* different folders: the rename inside the staging folder is not refused as
\* "destination already exists", dst is created and the staging folder is
\* removed.  (Stated for the default parent and a staging name nothing has.)
C23_CpSameLeaf ==
    (last.op = "cp" /\ last.parent = None /\ FreshTemp
     /\ Plain(last.path) /\ Plain(last.dst)
     /\ Movable(last.pre, last.path, last.dst, last.parent)
     /\ basename(last.path) = Leaf(last.dst)
     /\ Container(last.path) # Container(last.dst))
        => /\ last.res # "AlreadyExists"
           /\ last.res = "ok"
           /\ Located(syn, last.dst, last.parent) \notin Live(last.pre) \cup {None}
           /\ last.tid \notin Live(syn)

\* C24: if src names nothing, or else dst names something, or else dst's
\* folder does not exist, cp fails with the error of that test, taken in this
\* order, and the store is as it was: no staging folder was created and
\* nothing was copied, moved, renamed or deleted.  (Stated for the default
\* parent and a staging name nothing has.)
C24_CpRefusalsLeaveStore ==
    (last.op = "cp" /\ last.parent = None /\ FreshTemp
     /\ Plain(last.path) /\ Plain(last.dst))
        => LET src == Located(last.pre, last.path, last.parent)
               dst == Located(last.pre, last.dst, last.parent)
               dir == Located(last.pre, Container(last.dst), last.parent)
               refused(err) == /\ last.res = err /\ last.stage = "check"
                               /\ last.tid = None /\ syn = last.pre
           IN  /\ src = None => refused("NotFound")
               /\ (src # None /\ dst # None) => refused("AlreadyExists")
               /\ (src # None /\ dst = None /\ dir = None)
                     => refused("InvalidDestination")

\* C25: whether cp returns or raises, every entity that existed before the
\* call keeps its identifier, name, container and content; and when the
\* staging name drawn is the name of a child of the parent, cp fails and that
\* child holds what it held.
C25_CpKeepsExisting ==
    last.op = "cp"
        => /\ \A i \in Live(last.pre) :
                 i \in Live(syn) /\ syn.ent[i] = last.pre.ent[i]
           /\ \A c \in Children(last.pre, Default(last.parent)) :
                 last.pre.ent[c].name = last.temp
                     => /\ last.res # "ok"
                        /\ Subtree(syn, c) = Subtree(last.pre, c)

\* C26: when the store refuses the rename after the move of mv has gone
\* through, mv raises and the entity is in dst's folder under its original
\* name; it is not put back, and no other entity is changed.
C26_MvStopsAfterMove ==
    (last.op = "mv" /\ last.res = "StoreError"
     /\ Names_Entity(last.pre, last.path, last.parent)
     /\ (last.parent = None \/ Plain(last.path))
     /\ move(last.pre, Located(last.pre, last.path, last.parent),
             Located(last.pre, Container(last.dst), last.parent)).res = "ok")
        => LET e == Located(last.pre, last.path, last.parent)
           IN  /\ Live(syn) = Live(last.pre)
               /\ syn.ent[e].parent = Located(last.pre, Container(last.dst), last.parent)
               /\ syn.ent[e].name = last.pre.ent[e].name
               /\ syn.ent[e].content = last.pre.ent[e].content
               /\ \A i \in Live(syn) \ {e} : syn.ent[i] = last.pre.ent[i]

\* C26 witness: a file was taken out of its folder into the project and the
\* rename that followed was refused.
C26_Witness ==
    /\ last.op = "mv" /\ last.res = "StoreError" /\ syn # last.pre
    /\ NSegs(last.path) = 2 /\ Plain(last.path)
    /\ Located(last.pre, last.path, last.parent) # None
    /\ syn.ent[Located(last.pre, last.path, last.parent)].parent = ProjectId
    /\ last.pre.ent[Located(last.pre, last.path, last.parent)].parent # ProjectId

====
